---- MODULE Spec2Model ----
(***************************************************************************)
(* A model of aloe/registry.py: the step registry (StepDict) and the hook  *)
(* registry (CallbackDict, CallbackDecorator).                             *)
(*                                                                         *)
(* Sentences and patterns are sequences of one-character strings.  The     *)
(* patterns are the regular expressions built from the literal "a", the    *)
(* wildcard ".", the end anchor "$" and the (never balanced) "(": the     *)
(* sentences are words over "a" and "b".  Both are lower case already, so  *)
(* re.I does not change which of them match.                               *)
(***************************************************************************)
EXTENDS Integers, Sequences, FiniteSets, TLC

VARIABLES
    steps,      \* StepDict.steps: the dict, in insertion order, of [key, func]
    last,       \* the last StepDict call: its arguments and what it returned
    callbacks,  \* the CallbackDict: what -> when -> the dict, in insertion
                \* order, of [priority, funcs], funcs the OrderedDict of
                \* [name, func]
    wrapper,    \* what the last call of CallbackDict.wrap returned: the
                \* hook lists in the closure of the function
    run,        \* the last call of that function: the hooks it called, in
                \* order, and what it raised
    reg         \* the last call of append_to or clear: its arguments and
                \* what it did

stepVars == <<steps, last>>
hookVars == <<callbacks, wrapper, run, reg>>
vars == <<steps, last, callbacks, wrapper, run, reg>>

(***************************************************************************)
(* Bounds and input sets                                                   *)
(***************************************************************************)
MaxSentLen == 2     \* the longest step sentence given to match_step
MaxSteps == 2       \* the most entries the step registry holds

PatChars == {"a", ".", "$"}
SentChars == {"a", "b"}
StepFuncs == {"f1", "f2"}

SeqsUpTo(S, n) == UNION {[1..k -> S] : k \in 0..n}

\* the sentences given to load and unload: the empty one, the literal and the
\* wildcard with and without the anchor, the anchor alone, two wildcards, and
\* one that does not compile
Sentences ==
    SeqsUpTo(PatChars, 1)
        \cup {<<"a", "$">>, <<".", "$">>, <<".", ".">>, <<"(">>}
StepInputs == SeqsUpTo(SentChars, MaxSentLen)

None == "None"
undefined_step == "undefined_step"

(***************************************************************************)
(* re: compile and search for the patterns above                           *)
(***************************************************************************)
\* re.compile raises re.error on an unbalanced parenthesis
re_error(pattern) == \E i \in 1..Len(pattern) : pattern[i] = "("

\* the pattern matches the string from offset i (0-based) on
RECURSIVE match_at(_, _, _)
match_at(pattern, string, i) ==
    IF pattern = <<>> THEN TRUE
    ELSE LET h == Head(pattern)
             t == Tail(pattern)
         IN  CASE h = "$" -> i = Len(string) /\ match_at(t, string, i)
               [] h = "." -> i < Len(string) /\ match_at(t, string, i + 1)
               [] OTHER   -> /\ i < Len(string)
                             /\ string[i + 1] = h
                             /\ match_at(t, string, i + 1)

\* regex.search(string): the start offset of the leftmost match, -1 for the
\* None of no match
search(pattern, string) ==
    LET starts == {i \in 0..Len(string) : match_at(pattern, string, i)}
    IN  IF starts = {} THEN -1
        ELSE CHOOSE i \in starts : \A j \in starts : i <= j

(***************************************************************************)
(* StepDict                                                                *)
(***************************************************************************)
endswith_dollar(sentence) ==
    Len(sentence) > 0 /\ sentence[Len(sentence)] = "$"

\* _assert_is_step that appends "$" whatever the sentence ends with
assert_is_step_always_appends(sentence) ==
    [raised |-> re_error(sentence), pattern |-> Append(sentence, "$")]

\* StepDict._assert_is_step: the pattern of the compiled regex, or that
\* StepLoadingError is raised
assert_is_step(sentence) ==
    LET anchored == IF endswith_dollar(sentence) THEN sentence
                    ELSE Append(sentence, "$")
    IN  [raised |-> re_error(anchored), pattern |-> anchored]

Keys(d) == {d[i].key : i \in 1..Len(d)}

IndexOf(d, key) == CHOOSE i \in 1..Len(d) : d[i].key = key

\* a store that adds an entry whether the dict has the key or not
dict_set_appends(d, key, func) == Append(d, [key |-> key, func |-> func])

\* d[key] = func on a dict: a new key goes last, a known key keeps its place
dict_set(d, key, func) ==
    IF key \in Keys(d)
        THEN [d EXCEPT ![IndexOf(d, key)].func = func]
        ELSE Append(d, [key |-> key, func |-> func])

\* del d[key] of a key of the dict
dict_del(d, key) ==
    LET i == IndexOf(d, key)
    IN  SubSeq(d, 1, i - 1) \o SubSeq(d, i + 1, Len(d))

\* unload_func that deletes the first sentence of the function only
RECURSIVE dict_filter_first(_, _)
dict_filter_first(d, dropped) ==
    IF d = <<>> THEN <<>>
    ELSE IF Head(d).func = dropped THEN Tail(d)
         ELSE <<Head(d)>> \o dict_filter_first(Tail(d), dropped)

\* StepDict.unload_func: the dict without the sentences of the function
RECURSIVE dict_filter(_, _)
dict_filter(d, dropped) ==
    IF d = <<>> THEN <<>>
    ELSE IF Head(d).func = dropped THEN dict_filter(Tail(d), dropped)
         ELSE <<Head(d)>> \o dict_filter(Tail(d), dropped)

\* the loop of StepDict.match_step over self.steps.values(): the function of
\* the match it keeps, None when it keeps none
RECURSIVE match_loop(_, _, _, _)
match_loop(d, sentence, matched_pos, matched_func) ==
    IF d = <<>> THEN matched_func
    ELSE LET pos == search(Head(d).key, sentence)
         IN  IF pos >= 0 /\ pos < matched_pos
                 THEN match_loop(Tail(d), sentence, matched_pos, Head(d).func)
                 ELSE match_loop(Tail(d), sentence, matched_pos, matched_func)

\* match_step that returns the None of matched_func when nothing matched
match_step_returns_None(d, sentence) ==
    <<match_loop(d, sentence, Len(sentence), None), <<>>, <<>>>>

\* StepDict.match_step: (function, args, kwargs); the patterns have no groups
match_step_result(d, sentence) ==
    LET matched_func == match_loop(d, sentence, Len(sentence), None)
    IN  IF matched_func # None THEN <<matched_func, <<>>, <<>>>>
        ELSE <<undefined_step, <<>>, <<>>>>

\* a call of a StepDict method: ret is what it returned or raised, (ret, args,
\* kwargs) the triple of match_step
Call(op, sentence, func, ret) ==
    [op |-> op, sentence |-> sentence, func |-> func, ret |-> ret,
     args |-> <<>>, kwargs |-> <<>>]

load(sentence, func) ==
    LET step_re == assert_is_step(sentence)
    IN  IF step_re.raised
            THEN /\ steps' = steps
                 /\ last' = Call("load", sentence, func, "StepLoadingError")
                 /\ UNCHANGED hookVars
            ELSE /\ Len(dict_set(steps, step_re.pattern, func)) <= MaxSteps
                 /\ steps' = dict_set(steps, step_re.pattern, func)
                 /\ last' = Call("load", sentence, func, func)
                 /\ UNCHANGED hookVars

unload(sentence) ==
    /\ steps' = IF sentence \in Keys(steps) THEN dict_del(steps, sentence)
                ELSE steps
    /\ last' = Call("unload", sentence, None, None)
    /\ UNCHANGED hookVars

unload_func(func) ==
    /\ steps' = dict_filter(steps, func)
    /\ last' = Call("unload_func", <<>>, func, None)
    /\ UNCHANGED hookVars

step_clear ==
    /\ steps' = <<>>
    /\ last' = Call("clear", <<>>, None, None)
    /\ UNCHANGED hookVars

match_step(sentence) ==
    /\ steps' = steps
    /\ last' = [Call("match_step", sentence, None,
                      match_step_result(steps, sentence)[1])
                    EXCEPT !.args = match_step_result(steps, sentence)[2],
                           !.kwargs = match_step_result(steps, sentence)[3]]
    /\ UNCHANGED hookVars

StepInit ==
    /\ steps = <<>>
    /\ last = [op |-> "init", sentence |-> <<>>, func |-> None, ret |-> None,
               args |-> <<>>, kwargs |-> <<>>]

(***************************************************************************)
(* CallbackDict                                                            *)
(*                                                                         *)
(* A priority is written as a sequence: <<n>> is the int n (the default    *)
(* priority=0 of append_to is <<0>>) and <<pc, n>> the tuple (pc, n) that  *)
(* CallbackDecorator._decorate builds.  A hook name is a sequence too:     *)
(* <<>> is name=None, <<n>> an explicit name and a triple the function id. *)
(***************************************************************************)
HOOK_WHAT == <<"all", "feature", "example", "step">>
HOOK_WHEN == <<"before", "after", "around">>

DISPLAY == -20
SYSTEM_OUTER == -10
USER == 0
SYSTEM_INNER == 10

Range(seq) == {seq[i] : i \in 1..Len(seq)}

RECURSIVE Reverse(_)
Reverse(seq) ==
    IF seq = <<>> THEN <<>> ELSE Append(Reverse(Tail(seq)), Head(seq))

\* utils.unwrap_function: w1 is f1 under a functools.wraps decorator, the
\* other hooks are plain functions
unwrap_function(func) == IF func = "w1" THEN "f1" ELSE func

\* the line of the def statement of a plain function
co_firstlineno(func) ==
    CASE func = "f1" -> 10
      [] func = "f2" -> 20
      [] func = "f3" -> 30

\* CallbackDict._function_id: (co_filename, co_firstlineno, closure contents)
function_id(func) ==
    <<"hooks.py", co_firstlineno(unwrap_function(func)), <<>>>>

is_tuple(priority) == Len(priority) = 2

\* a < b with the tuples compared on their second item first
less_sub_priority_first(a, b) ==
    IF is_tuple(a) THEN a[2] < b[2] \/ (a[2] = b[2] /\ a[1] < b[1])
    ELSE a[1] < b[1]

\* a < b on two ints or on two tuples
less(a, b) ==
    IF is_tuple(a) THEN a[1] < b[1] \/ (a[1] = b[1] /\ a[2] < b[2])
    ELSE a[1] < b[1]

\* sorted(keys) raises TypeError: '<' between an int and a tuple
sorted_raises(keys) == \E a, b \in keys : is_tuple(a) # is_tuple(b)

RECURSIVE sorted(_)
sorted(keys) ==
    IF keys = {} THEN <<>>
    ELSE LET m == CHOOSE a \in keys : \A b \in keys \ {a} : less(a, b)
         IN  <<m>> \o sorted(keys \ {m})

\* OrderedDict.pop(name, None)
RECURSIVE odict_pop(_, _)
odict_pop(funcs, name) ==
    IF funcs = <<>> THEN <<>>
    ELSE IF Head(funcs).name = name THEN odict_pop(Tail(funcs), name)
         ELSE <<Head(funcs)>> \o odict_pop(Tail(funcs), name)

\* if name is None: name = self._function_id(function)
hook_name(function, name) ==
    IF name = <<>> THEN function_id(function) ELSE name

Priorities(when_dict) == {when_dict[i].priority : i \in 1..Len(when_dict)}

Bucket(when_dict, priority) ==
    CHOOSE i \in 1..Len(when_dict) : when_dict[i].priority = priority

\* the names an OrderedDict of hooks holds
Names(funcs) == {funcs[i].name : i \in 1..Len(funcs)}

\* append_to without funcs.pop(name, None): a name the bucket holds keeps its
\* place and gets the new function
append_to_without_pop(cb, what, when, function, name, priority) ==
    LET id == hook_name(function, name)
        d == cb[what][when]
        d1 == IF priority \in Priorities(d) THEN d
              ELSE Append(d, [priority |-> priority, funcs |-> <<>>])
        i == Bucket(d1, priority)
        old == d1[i].funcs
        funcs == IF id \in Names(old)
                     THEN [j \in 1..Len(old) |->
                              IF old[j].name = id
                                  THEN [name |-> id, func |-> function]
                                  ELSE old[j]]
                     ELSE Append(old, [name |-> id, func |-> function])
    IN  [cb EXCEPT ![what][when] = [d1 EXCEPT ![i].funcs = funcs]]

\* CallbackDict.append_to: the registry after it
append_to_result(cb, what, when, function, name, priority) ==
    LET id == hook_name(function, name)
        d == cb[what][when]
        \* setdefault(priority, OrderedDict())
        d1 == IF priority \in Priorities(d) THEN d
              ELSE Append(d, [priority |-> priority, funcs |-> <<>>])
        i == Bucket(d1, priority)
        funcs == Append(odict_pop(d1[i].funcs, id),
                        [name |-> id, func |-> function])
    IN  [cb EXCEPT ![what][when] = [d1 EXCEPT ![i].funcs = funcs]]

\* the buckets of the registry, <<what, when, bucket>> by their indexes, and
\* the order in which the loops of clear come to them
Buckets(cb) ==
    UNION {{<<w, n, i>> : i \in 1..Len(cb[HOOK_WHAT[w]][HOOK_WHEN[n]])} :
              <<w, n>> \in (1..Len(HOOK_WHAT)) \X (1..Len(HOOK_WHEN))}

PriorityAt(cb, b) == cb[HOOK_WHAT[b[1]]][HOOK_WHEN[b[2]]][b[3]].priority

Earlier(a, b) ==
    \/ a[1] < b[1]
    \/ a[1] = b[1] /\ a[2] < b[2]
    \/ a[1] = b[1] /\ a[2] = b[2] /\ a[3] < b[3]

\* CallbackDict.clear: the registry after it and whether it raised TypeError.
\* priority_class is <<>> for None and <<pc>> for a class.  With a class given
\* the generator unpacks every key as (pc, _), so the first int key it comes
\* to raises TypeError, after the buckets before it have been handled.
clear_result(cb, name, priority_class) ==
    LET ints == {b \in Buckets(cb) : ~is_tuple(PriorityAt(cb, b))}
        raised == priority_class # <<>> /\ ints # {}
        stop == CHOOSE b \in ints : \A c \in ints \ {b} : Earlier(b, c)
        handled(b) ==
            /\ raised => Earlier(b, stop)
            /\ priority_class # <<>> => PriorityAt(cb, b)[1] = priority_class[1]
        after(w, n, i) ==
            LET bucket == cb[HOOK_WHAT[w]][HOOK_WHEN[n]][i]
            IN  IF ~handled(<<w, n, i>>) THEN bucket
                ELSE IF name = <<>> THEN [bucket EXCEPT !.funcs = <<>>]
                ELSE [bucket EXCEPT !.funcs = odict_pop(bucket.funcs, name)]
    IN  [raised |-> raised,
         cb |-> [what \in Range(HOOK_WHAT) |-> [when \in Range(HOOK_WHEN) |->
                    LET w == CHOOSE k \in 1..Len(HOOK_WHAT) : HOOK_WHAT[k] = what
                        n == CHOOSE k \in 1..Len(HOOK_WHEN) : HOOK_WHEN[k] = when
                    IN  [i \in 1..Len(cb[what][when]) |-> after(w, n, i)]]]]

RECURSIVE bucket_funcs(_, _)
bucket_funcs(when_dict, priorities) ==
    IF priorities = <<>> THEN <<>>
    ELSE LET funcs == when_dict[Bucket(when_dict, Head(priorities))].funcs
         IN  [i \in 1..Len(funcs) |-> funcs[i].func]
                 \o bucket_funcs(when_dict, Tail(priorities))

\* CallbackDict.hook_list: the hooks, or that sorted() raised TypeError
hook_list(cb, what, when) ==
    LET keys == Priorities(cb[what][when])
    IN  IF sorted_raises(keys) THEN [raised |-> TRUE, hooks |-> <<>>]
        ELSE [raised |-> FALSE,
              hooks |-> bucket_funcs(cb[what][when], sorted(keys))]

(***************************************************************************)
(* The function CallbackDict.wrap returns.  An event is <<kind, function>>: *)
(* a call of a before or an after hook, the entry or the exit of an around  *)
(* hook, or the call of the wrapped function, the body.                     *)
(***************************************************************************)
Body == <<"body", "function">>
NoExc == <<"none", "none">>

\* a loop over before_hooks that goes on after a hook raised and raises the
\* first failure at its end
RECURSIVE before_loop_runs_all(_, _)
before_loop_runs_all(hooks, raises) ==
    IF hooks = <<>> THEN [trace |-> <<>>, exc |-> NoExc]
    ELSE LET ev == <<"before", Head(hooks)>>
             rest == before_loop_runs_all(Tail(hooks), raises)
         IN  [trace |-> <<ev>> \o rest.trace,
              exc |-> IF ev \in raises THEN ev ELSE rest.exc]

\* for before_hook in before_hooks: the first one that raises ends the loop
RECURSIVE before_loop(_, _)
before_loop(hooks, raises) ==
    IF hooks = <<>> THEN [trace |-> <<>>, exc |-> NoExc]
    ELSE LET ev == <<"before", Head(hooks)>>
             rest == before_loop(Tail(hooks), raises)
         IN  IF ev \in raises THEN [trace |-> <<ev>>, exc |-> ev]
             ELSE [trace |-> <<ev>> \o rest.trace, exc |-> rest.exc]

\* multi_manager: the around hooks are entered in order; an entry that raises
\* ends the entering
RECURSIVE enter_loop(_, _)
enter_loop(hooks, raises) ==
    IF hooks = <<>> THEN [trace |-> <<>>, entered |-> <<>>, exc |-> NoExc]
    ELSE LET ev == <<"enter", Head(hooks)>>
             rest == enter_loop(Tail(hooks), raises)
         IN  IF ev \in raises
                 THEN [trace |-> <<ev>>, entered |-> <<>>, exc |-> ev]
                 ELSE [trace |-> <<ev>> \o rest.trace,
                       entered |-> <<Head(hooks)>> \o rest.entered,
                       exc |-> rest.exc]

\* multi_manager: every entered region is exited, innermost first, whatever
\* failed before; the first failure is the one that propagates
RECURSIVE exit_loop(_, _, _)
exit_loop(hooks, raises, exc) ==
    IF hooks = <<>> THEN [trace |-> <<>>, exc |-> exc]
    ELSE LET ev == <<"exit", Head(hooks)>>
             now == IF exc = NoExc /\ ev \in raises THEN ev ELSE exc
             rest == exit_loop(Tail(hooks), raises, now)
         IN  [trace |-> <<ev>> \o rest.trace, exc |-> rest.exc]

\* with multi_hook(...): return function(...)
multi_hook(around_hooks, raises) ==
    LET e == enter_loop(around_hooks, raises)
        inner == IF e.exc # NoExc THEN e.exc
                 ELSE IF Body \in raises THEN Body ELSE NoExc
        x == exit_loop(Reverse(e.entered), raises, inner)
    IN  [trace |-> e.trace \o (IF e.exc = NoExc THEN <<Body>> ELSE <<>>)
                      \o x.trace,
         exc |-> x.exc]

\* the after hooks taken in the order of hook_list, as the before hooks are
after_order_not_reversed(after_hooks) == after_hooks

\* the order in which the finally block of wrapped goes through after_hooks
after_order(after_hooks) == Reverse(after_hooks)

\* the finally block of wrapped: an after hook that raises ends the loop and
\* its exception replaces the one in flight
RECURSIVE after_loop(_, _, _)
after_loop(hooks, raises, exc) ==
    IF hooks = <<>> THEN [trace |-> <<>>, exc |-> exc]
    ELSE LET ev == <<"after", Head(hooks)>>
             rest == after_loop(Tail(hooks), raises, exc)
         IN  IF ev \in raises THEN [trace |-> <<ev>>, exc |-> ev]
             ELSE [trace |-> <<ev>> \o rest.trace, exc |-> rest.exc]

\* wrapped without its try/finally: the after hooks run only when nothing
\* raised before them
wrapped_without_finally(w, raises) ==
    LET b == before_loop(w.before_hooks, raises)
        m == multi_hook(w.around_hooks, raises)
        a == after_loop(after_order(w.after_hooks), raises, m.exc)
    IN  IF b.exc # NoExc THEN [trace |-> b.trace, exc |-> b.exc]
        ELSE IF m.exc # NoExc
                 THEN [trace |-> b.trace \o m.trace, exc |-> m.exc]
        ELSE [trace |-> b.trace \o m.trace \o a.trace, exc |-> a.exc]

\* wrapped that takes the hooks from the registry when it is called
wrapped_reads_registry(w, raises) ==
    LET b == before_loop(hook_list(callbacks, w.what, "before").hooks, raises)
        m == multi_hook(hook_list(callbacks, w.what, "around").hooks, raises)
        a == after_loop(after_order(hook_list(callbacks, w.what, "after").hooks),
                        raises, m.exc)
    IN  IF b.exc # NoExc THEN [trace |-> b.trace, exc |-> b.exc]
        ELSE [trace |-> b.trace \o m.trace \o a.trace, exc |-> a.exc]

\* wrapped(*args, **kwargs): the events in order and the exception that
\* reaches the caller
wrapped_result(w, raises) ==
    LET b == before_loop(w.before_hooks, raises)
        m == multi_hook(w.around_hooks, raises)
        a == after_loop(after_order(w.after_hooks), raises, m.exc)
    IN  IF b.exc # NoExc THEN [trace |-> b.trace, exc |-> b.exc]
        ELSE [trace |-> b.trace \o m.trace \o a.trace, exc |-> a.exc]

\* the calls a wrapper can make: each of them may raise
Sites(w) ==
    {<<"before", f>> : f \in Range(w.before_hooks)}
        \cup {<<"enter", f>> : f \in Range(w.around_hooks)}
        \cup {<<"exit", f>> : f \in Range(w.around_hooks)}
        \cup {<<"after", f>> : f \in Range(w.after_hooks)}
        \cup {Body}

\* no function: wrap was not called yet, or it raised TypeError
NoWrapper ==
    [what |-> None, before_hooks |-> <<>>, around_hooks |-> <<>>,
     after_hooks |-> <<>>, raised |-> FALSE]

NoRun == [called |-> FALSE, raises |-> {}, trace |-> <<>>, exc |-> NoExc]

\* a call of append_to or clear: replaced says that append_to found the name
\* in the bucket, raised that clear raised TypeError
RegCall(op, what, when, function, name, priority, replaced, raised) ==
    [op |-> op, what |-> what, when |-> when, function |-> function,
     name |-> name, priority |-> priority, replaced |-> replaced,
     raised |-> raised]

\* CallbackDict.append_to(what, when, function, name, priority)
append_to(what, when, function, name, priority) ==
    /\ callbacks' = append_to_result(callbacks, what, when, function, name,
                                     priority)
    /\ reg' = RegCall("append_to", what, when, function, name, priority,
                       /\ priority \in Priorities(callbacks[what][when])
                       /\ hook_name(function, name) \in
                              Names(callbacks[what][when][
                                  Bucket(callbacks[what][when], priority)].funcs),
                       FALSE)
    /\ UNCHANGED <<wrapper, run, steps, last>>

\* CallbackDecorator(registry, when, priority_class)._decorate(what, function,
\* name, priority)
decorate(priority_class, when, what, function, name, priority) ==
    append_to(what, when, function, name, <<priority_class, priority>>)

\* CallbackDict.clear(name, priority_class)
clear(name, priority_class) ==
    LET r == clear_result(callbacks, name, priority_class)
    IN  /\ callbacks' = r.cb
        /\ reg' = RegCall("clear", None, None, None, name, priority_class,
                          FALSE, r.raised)
        /\ UNCHANGED <<wrapper, run, steps, last>>

\* CallbackDict.wrap(what, function)
wrap(what) ==
    LET b == hook_list(callbacks, what, "before")
        r == hook_list(callbacks, what, "around")
        a == hook_list(callbacks, what, "after")
        raised == b.raised \/ r.raised \/ a.raised
    IN  /\ wrapper' = IF raised THEN [NoWrapper EXCEPT !.raised = TRUE]
                       ELSE [what |-> what, before_hooks |-> b.hooks,
                             around_hooks |-> r.hooks,
                             after_hooks |-> a.hooks, raised |-> FALSE]
        /\ run' = NoRun
        /\ UNCHANGED <<callbacks, reg, steps, last>>

\* a call of the function wrap returned, with the calls in raises raising
wrapped(raises) ==
    /\ wrapper.what # None
    /\ LET r == wrapped_result(wrapper, raises)
       IN  run' = [called |-> TRUE, raises |-> raises, trace |-> r.trace,
                   exc |-> r.exc]
    /\ UNCHANGED <<callbacks, wrapper, reg, steps, last>>

\* CallbackDict.before_after(what): the closure of the pair (before_func,
\* after_func); around_hook is the cell around_hook[0]
before_after(what) ==
    LET b == hook_list(callbacks, what, "before")
        r == hook_list(callbacks, what, "around")
        a == hook_list(callbacks, what, "after")
        raised == b.raised \/ r.raised \/ a.raised
    IN  /\ wrapper' = IF raised THEN [NoWrapper EXCEPT !.raised = TRUE]
                       ELSE [what |-> what, before_hooks |-> b.hooks,
                             around_hooks |-> r.hooks,
                             after_hooks |-> a.hooks, raised |-> FALSE,
                             around_hook |-> None]
        /\ run' = NoRun
        /\ UNCHANGED <<callbacks, reg, steps, last>>

\* before_func(): the before hooks, then multi_hook(...).__enter__()
before_func ==
    /\ wrapper.what # None
    /\ run' = [called |-> FALSE, raises |-> {},
               trace |-> before_loop(wrapper.before_hooks, {}).trace
                             \o enter_loop(wrapper.around_hooks, {}).trace,
               exc |-> NoExc]
    /\ wrapper' = [wrapper EXCEPT !.around_hook = "multi_hook"]
    /\ UNCHANGED <<callbacks, reg, steps, last>>

\* the order in which after_func goes through after_hooks
after_func_order(after_hooks) == after_hooks

\* after_func(): around_hook[0].__exit__(None, None, None), then the after
\* hooks; with around_hook[0] None the call of __exit__ raises AttributeError
after_func ==
    /\ wrapper.what # None
    /\ IF wrapper.around_hook = None
           THEN /\ run' = [run EXCEPT !.called = TRUE,
                                      !.exc = <<"AttributeError", "__exit__">>]
                /\ wrapper' = wrapper
           ELSE /\ run' = [run EXCEPT
                              !.called = TRUE,
                              !.trace = run.trace
                                  \o exit_loop(Reverse(wrapper.around_hooks), {},
                                               NoExc).trace
                                  \o after_loop(after_func_order(
                                                    wrapper.after_hooks), {},
                                                NoExc).trace]
                /\ wrapper' = [wrapper EXCEPT !.around_hook = None]
    /\ UNCHANGED <<callbacks, reg, steps, last>>

HookInit ==
    /\ callbacks = [what \in Range(HOOK_WHAT) |->
                       [when \in Range(HOOK_WHEN) |-> <<>>]]
    /\ wrapper = NoWrapper
    /\ run = NoRun
    /\ reg = RegCall("init", None, None, None, <<>>, <<>>, FALSE, FALSE)

Init == StepInit /\ HookInit

(***************************************************************************)
(* One composed execution: the hooks of a steps module are registered by   *)
(* the decorators before, around and after; then the runner wraps a step   *)
(* and calls the wrapper once, and wraps again for the next step.  The     *)
(* hooks and the step may raise.                                           *)
(***************************************************************************)
MaxFailures == 2    \* the most calls that raise in one call of the wrapper

\* the decorated hooks: @before.each_step(priority=5) def f2 ... and so on
Decorations ==
    {<<"before", "f1", 0>>, <<"before", "f2", 5>>,
     <<"around", "f1", 0>>, <<"around", "f2", 5>>,
     <<"after", "f1", 0>>, <<"after", "f2", 5>>, <<"after", "f3", 0>>}

\* before.each_step(function, priority=n), around.each_step, after.each_step:
\* the decorators of the module, of class USER
each_step(when, function, priority) ==
    decorate(USER, when, "step", function, <<>>, priority)

Failures(w) == {r \in SUBSET Sites(w) : Cardinality(r) <= MaxFailures}

Next ==
    \/ \E d \in Decorations :
          wrapper.what = None /\ each_step(d[1], d[2], d[3])
    \/ wrap("step")
    \/ \E raises \in Failures(wrapper) : ~run.called /\ wrapped(raises)

Spec == Init /\ [][Next]_vars

(***************************************************************************)
(* The registry between runs: hooks are registered at two places, by       *)
(* append_to with its default priority and by decorators of two classes,   *)
(* the registry is cleared, and the runner wraps and calls with no hook    *)
(* raising.  The runner gives up its wrapper before the registry changes.  *)
(***************************************************************************)
MaxHooks == 2       \* the most hooks, and the most buckets, in the registry

\* (what, when) of the registrations
Targets == {<<"example", "after">>, <<"step", "before">>}

\* (function, name) of the registrations: f1 and w1 have the same function
\* id, f2 is given a name
Hooks == {<<"f1", <<>>>>, <<"w1", <<>>>>, <<"f2", <<"n">>>>}

\* (priority class, priority) of the decorators
Decorators == {<<SYSTEM_OUTER, 5>>, <<USER, 0>>}

ClearNames == {<<>>, function_id("f1"), <<"n">>}
ClearClasses == {<<>>, <<SYSTEM_OUTER>>, <<USER>>}

Size(cb) ==
    LET B == Buckets(cb)
        len(b) == Len(cb[HOOK_WHAT[b[1]]][HOOK_WHEN[b[2]]][b[3]].funcs)
        RECURSIVE sum(_)
        sum(S) == IF S = {} THEN 0
                  ELSE LET b == CHOOSE x \in S : TRUE
                       IN  len(b) + sum(S \ {b})
    IN  sum(B)

Fits(cb) == Size(cb) <= MaxHooks /\ Cardinality(Buckets(cb)) <= MaxHooks

\* the runner drops the wrapper of the run that ended
release ==
    /\ wrapper # NoWrapper
    /\ wrapper' = NoWrapper
    /\ run' = NoRun
    /\ UNCHANGED <<callbacks, reg, steps, last>>

RegistryNext ==
    \/ \E t \in Targets, h \in Hooks :
          /\ wrapper = NoWrapper
          /\ Fits(append_to_result(callbacks, t[1], t[2], h[1], h[2], <<0>>))
          /\ append_to(t[1], t[2], h[1], h[2], <<0>>)
    \/ \E t \in Targets, h \in Hooks, d \in Decorators :
          /\ wrapper = NoWrapper
          /\ Fits(append_to_result(callbacks, t[1], t[2], h[1], h[2], d))
          /\ decorate(d[1], t[2], t[1], h[1], h[2], d[2])
    \/ \E name \in ClearNames, priority_class \in ClearClasses :
          wrapper = NoWrapper /\ clear(name, priority_class)
    \/ \E what \in {"example", "step"} : wrap(what)
    \/ wrapped({})
    \/ release

RegistrySpec == Init /\ [][RegistryNext]_vars

(***************************************************************************)
(* The priority classes: the decorators of the four classes register before *)
(* and around hooks of the steps with two sub-priorities, then the runner   *)
(* wraps a step and calls the wrapper.                                      *)
(***************************************************************************)
PriorityClasses == {DISPLAY, SYSTEM_OUTER, USER, SYSTEM_INNER}
SubPriorities == {0, 5}

PriorityNext ==
    \/ \E when \in {"before", "around"}, function \in {"f1", "f2"},
          priority_class \in PriorityClasses, priority \in SubPriorities :
          /\ wrapper = NoWrapper
          /\ Fits(append_to_result(callbacks, "step", when, function, <<>>,
                                   <<priority_class, priority>>))
          /\ decorate(priority_class, when, "step", function, <<>>, priority)
    \/ wrap("step")
    \/ wrapped({})

PrioritySpec == Init /\ [][PriorityNext]_vars

(***************************************************************************)
(* The runner that cannot wrap the event: it takes the pair of before_after *)
(* for the steps and calls before_func and after_func around the event.     *)
(***************************************************************************)
PairNext ==
    \/ \E d \in Decorations :
          wrapper.what = None /\ each_step(d[1], d[2], d[3])
    \/ before_after("step")
    \/ before_func
    \/ after_func

PairSpec == Init /\ [][PairNext]_vars

(***************************************************************************)
(* The registry changing under a wrapper: hooks of the steps and of the     *)
(* examples are registered and cleared at any time, also after the runner   *)
(* has wrapped and between the calls of the wrapper.                        *)
(***************************************************************************)
\* (what, when, function, priority) of the registrations
Registrations ==
    {<<"step", "before", "f1", <<USER, 5>>>>,
     <<"step", "before", "f2", <<USER, 0>>>>,
     <<"step", "after", "f1", <<USER, 0>>>>,
     <<"example", "before", "f3", <<USER, 0>>>>}

SnapshotNext ==
    \/ \E r \in Registrations :
          /\ Fits(append_to_result(callbacks, r[1], r[2], r[3], <<>>, r[4]))
          /\ append_to(r[1], r[2], r[3], <<>>, r[4])
    \/ \E name \in {<<>>, function_id("f1")} : clear(name, <<>>)
    \/ \E what \in {"example", "step"} : wrap(what)
    \/ wrapped({})

SnapshotSpec == Init /\ [][SnapshotNext]_vars

StepNext ==
    \/ \E s \in Sentences, f \in StepFuncs : load(s, f)
    \/ \E s \in Sentences : unload(s)
    \/ \E f \in StepFuncs : unload_func(f)
    \/ step_clear
    \/ \E s \in StepInputs : match_step(s)

\* the step registry alone
StepSpec == Init /\ [][StepNext]_vars

(***************************************************************************)
(* Claims about the step registry, checked under StepSpec                  *)
(***************************************************************************)
\* the start offset of entry i's match on the sentence, -1 when it has none
Offset(i, sentence) == search(steps[i].key, sentence)

Matching(sentence) == {i \in 1..Len(steps) : Offset(i, sentence) >= 0}

\* the entries whose match starts at the smallest offset of all
Leftmost(sentence) ==
    {i \in Matching(sentence) :
        \A j \in Matching(sentence) : Offset(i, sentence) <= Offset(j, sentence)}

\* C1: the callable match_step returns is bound to a pattern whose match
\* starts at the smallest offset among all the registered patterns that match
\* the sentence, whatever the order of registration.
C1_LeftmostMatchWins ==
    (last.op = "match_step" /\ last.ret # undefined_step)
        => \E i \in Leftmost(last.sentence) : steps[i].func = last.ret

\* C7: after load(S, f) and then unload(S) with the same sentence S, with or
\* without a trailing "$", the registry holds no mapping for S and match_step
\* finds nothing through it.
C7_UnloadAfterLoad ==
    [][(/\ last.op = "load"
        /\ last.ret # "StepLoadingError"
        /\ last'.op = "unload"
        /\ last'.sentence = last.sentence)
          => /\ assert_is_step(last.sentence).pattern \notin Keys(steps')
             /\ \A s \in StepInputs :
                    Matching(s) = {IndexOf(steps,
                                       assert_is_step(last.sentence).pattern)}
                        => match_step_result(steps', s)[1] = undefined_step]_vars

\* C8: when exactly one registered pattern matches the sentence, at any start
\* offset from 0 up to the length of the sentence, match_step returns the
\* callable bound to it and never the undefined-step sentinel.
C8_OnlyMatchResolves ==
    (last.op = "match_step" /\ Cardinality(Matching(last.sentence)) = 1)
        => \E i \in Matching(last.sentence) : steps[i].func = last.ret

\* C9: when two or more registered patterns match the sentence at the same
\* smallest offset, match_step returns the callable of the one that comes
\* first in the registry's iteration order.
C9_TieGoesToFirst ==
    (/\ last.op = "match_step"
     /\ last.ret # undefined_step
     /\ Cardinality(Leftmost(last.sentence)) >= 2)
        => LET first == CHOOSE i \in Leftmost(last.sentence) :
                            \A j \in Leftmost(last.sentence) : i <= j
           IN  steps[first].func = last.ret

\* the entries of a dict whose pattern matches the sentence
MatchingIn(d, sentence) ==
    {i \in 1..Len(d) : search(d[i].key, sentence) >= 0}

\* the entries of a dict in their order, those of the function left out
RECURSIVE Without(_, _)
Without(d, func) ==
    IF d = <<>> THEN <<>>
    ELSE (IF Head(d).func = func THEN <<>> ELSE <<Head(d)>>)
             \o Without(Tail(d), func)

\* C11: unload_func(f) removes every mapping bound to f and no other mapping,
\* the others keep their callable and their order; it changes nothing when f
\* is not registered; and a load of f right after it returns f and binds the
\* anchored pattern to f, so that match_step returns f again for the
\* sentences that the pattern alone resolves and no other pattern matches.
C11_UnloadFuncRemovesExactly ==
    [][/\ last'.op = "unload_func"
           => /\ \A i \in 1..Len(steps') : steps'[i].func # last'.func
              /\ steps' = Without(steps, last'.func)
              /\ (\A i \in 1..Len(steps) : steps[i].func # last'.func)
                     => steps' = steps
       /\ (/\ last.op = "unload_func"
           /\ last'.op = "load"
           /\ last'.func = last.func
           /\ last'.ret # "StepLoadingError")
           => LET entry == [key |-> assert_is_step(last'.sentence).pattern,
                            func |-> last'.func]
              IN  /\ last'.ret = last'.func
                  /\ entry \in Range(steps')
                  /\ \A s \in StepInputs :
                         (/\ match_step_result(<<entry>>, s)[1] = entry.func
                          /\ \A i \in MatchingIn(steps', s) :
                                 steps'[i] = entry)
                             => match_step_result(steps', s)[1] = entry.func
      ]_vars

\* unload_func has left the mapping of the other callable
C11_Witness ==
    /\ last.op = "unload_func"
    /\ Len(steps) = 1
    /\ steps[1].func # last.func
    /\ \E s \in StepInputs : match_step_result(steps, s)[1] = steps[1].func

\* the entries of a dict under the key
Under(d, key) == {i \in 1..Len(d) : d[i].key = key}

\* C15: from the same registry, load(S, f) with S not ending in "$" and
\* load(S + "$", f) raise or succeed alike and lead to the same registry, with
\* one entry under the key S + "$" bound to f, and to the same result of
\* match_step for every sentence; loading one after the other, in either
\* order, leaves that one entry.
C15_AnchoringIdempotent ==
    [][/\ (last'.op = "load" /\ ~endswith_dollar(last'.sentence))
           => LET anchored == Append(last'.sentence, "$")
                  step_re == assert_is_step(anchored)
                  other == IF step_re.raised THEN steps
                           ELSE dict_set(steps, step_re.pattern, last'.func)
              IN  /\ (last'.ret = "StepLoadingError") = step_re.raised
                  /\ steps' = other
                  /\ \A s \in StepInputs :
                         match_step_result(steps', s) =
                             match_step_result(other, s)
                  /\ ~step_re.raised
                         => /\ Cardinality(Under(steps', anchored)) = 1
                            /\ \A i \in Under(steps', anchored) :
                                   steps'[i].func = last'.func
       /\ (/\ last.op = "load" /\ last.ret # "StepLoadingError"
           /\ last'.op = "load" /\ last'.ret # "StepLoadingError"
           /\ \/ /\ ~endswith_dollar(last.sentence)
                 /\ last'.sentence = Append(last.sentence, "$")
              \/ /\ ~endswith_dollar(last'.sentence)
                 /\ last.sentence = Append(last'.sentence, "$"))
           => /\ Len(steps') = Len(steps)
              /\ Cardinality(Under(steps', assert_is_step(last.sentence).pattern))
                     = 1
      ]_vars

\* "a" loaded for f1 on a registry that had the key "a$" already, and the
\* sentence "a" resolved through it
C15_Witness ==
    /\ last.op = "load"
    /\ last.sentence = <<"a">>
    /\ last.ret = "f1"
    /\ Len(steps) = 2
    /\ steps[1] = [key |-> <<"a", "$">>, func |-> "f1"]
    /\ Under(steps, <<"a", "$">>) = {1}

\* C16: the registry has one entry per anchored pattern.  A load of a pattern
\* that is registered replaces its callable, adds no entry and leaves the
\* other entries as they are, a load of a new pattern adds one entry; the
\* entry of the pattern is bound to the callable of the last load, and
\* match_step returns only callables that entries are bound to now.
C16_LoadReplaces ==
    /\ [](/\ Cardinality(Keys(steps)) = Len(steps)
          /\ (last.op = "load" /\ last.ret # "StepLoadingError")
                 => \E i \in 1..Len(steps) :
                        steps[i] = [key |-> assert_is_step(last.sentence).pattern,
                                    func |-> last.func]
          /\ (last.op = "match_step" /\ last.ret # undefined_step)
                 => \E i \in MatchingIn(steps, last.sentence) :
                        steps[i].func = last.ret)
    /\ [][(last'.op = "load" /\ last'.ret # "StepLoadingError")
              => LET key == assert_is_step(last'.sentence).pattern
                 IN  /\ Len(steps') = IF key \in Keys(steps) THEN Len(steps)
                                      ELSE Len(steps) + 1
                     /\ \A i \in 1..Len(steps) :
                            /\ steps'[i].key = steps[i].key
                            /\ steps[i].key # key
                                   => steps'[i].func = steps[i].func]_vars

\* a pattern loaded again: its entry kept its place before another one
C16_Witness ==
    /\ last.op = "load"
    /\ last.ret = "f2"
    /\ Len(steps) = 2
    /\ steps[1] = [key |-> assert_is_step(last.sentence).pattern, func |-> "f2"]
    /\ steps[2].func = "f1"
    /\ \E s \in StepInputs : MatchingIn(steps, s) = {1}

\* C17: match_step on a sentence that no registered pattern matches, the
\* registry empty or not, raises nothing and returns the undefined-step
\* sentinel with no positional and no keyword arguments; and match_step
\* never changes the registry.
C17_UndefinedStep ==
    [][last'.op = "match_step"
          => /\ steps' = steps
             /\ MatchingIn(steps, last'.sentence) = {}
                    => /\ last'.ret = undefined_step
                       /\ last'.args = <<>>
                       /\ last'.kwargs = <<>>]_vars

\* a sentence that the one registered pattern does not match
C17_Witness ==
    /\ last.op = "match_step"
    /\ last.sentence = <<"b">>
    /\ steps = <<[key |-> <<"a", "$">>, func |-> "f1"]>>
    /\ last.ret = undefined_step

(***************************************************************************)
(* Claims about the wrapper, checked under Spec                            *)
(***************************************************************************)
\* the hooks of a when_dict as <<bucket, place in the bucket>>
Entries(when_dict) ==
    UNION {{<<i, j>> : j \in 1..Len(when_dict[i].funcs)} :
              i \in 1..Len(when_dict)}

\* hook p comes before hook q in (priority, insertion) order
Precedes(when_dict, p, q) ==
    \/ less(when_dict[p[1]].priority, when_dict[q[1]].priority)
    \/ p[1] = q[1] /\ p[2] < q[2]

\* the functions of a when_dict in ascending (priority, insertion) order: the
\* k-th is the one that k - 1 others precede
Ordered(when_dict) ==
    [k \in 1..Cardinality(Entries(when_dict)) |->
        LET p == CHOOSE e \in Entries(when_dict) :
                     Cardinality({q \in Entries(when_dict) :
                                     Precedes(when_dict, q, e)}) = k - 1
        IN  when_dict[p[1]].funcs[p[2]].func]

Events(kind, hooks) == [k \in 1..Len(hooks) |-> <<kind, hooks[k]>>]

Count(trace, ev) == Cardinality({k \in 1..Len(trace) : trace[k] = ev})

\* C2: with nothing raising, one call of the wrapper runs the before hooks in
\* ascending (priority, insertion) order, enters the around hooks in that
\* order, runs the body, exits the around hooks in the reverse order and runs
\* the after hooks in the reverse of their (priority, insertion) order.
C2_HookOrder ==
    (run.called /\ run.raises = {})
        => LET B == Ordered(callbacks[wrapper.what]["before"])
               R == Ordered(callbacks[wrapper.what]["around"])
               A == Ordered(callbacks[wrapper.what]["after"])
           IN  /\ run.trace = Events("before", B) \o Events("enter", R)
                                \o <<Body>> \o Events("exit", Reverse(R))
                                \o Events("after", Reverse(A))
               /\ run.exc = NoExc

\* B1, B2, enter-R1, enter-R2, body, exit-R2, exit-R1, A2, A1
C2_Witness ==
    /\ run.called
    /\ run.raises = {}
    /\ run.trace = <<<<"before", "f1">>, <<"before", "f2">>,
                     <<"enter", "f1">>, <<"enter", "f2">>, Body,
                     <<"exit", "f2">>, <<"exit", "f1">>,
                     <<"after", "f2">>, <<"after", "f1">>>>

\* C3: when the body raises and no hook does, every registered after hook
\* and the exit of every around hook runs exactly once in that call, and the
\* caller gets the failure of the body.
C3_BodyFailure ==
    (run.called /\ run.raises = {Body})
        => /\ \A f \in Range(Ordered(callbacks[wrapper.what]["after"])) :
                  Count(run.trace, <<"after", f>>) = 1
           /\ \A f \in Range(Ordered(callbacks[wrapper.what]["around"])) :
                  /\ Count(run.trace, <<"enter", f>>) = 1
                  /\ Count(run.trace, <<"exit", f>>) = 1
           /\ Count(run.trace, Body) = 1
           /\ run.exc = Body

C3_Witness ==
    /\ run.called
    /\ run.raises = {Body}
    /\ run.exc = Body
    /\ Len(wrapper.after_hooks) >= 2
    /\ Len(wrapper.around_hooks) >= 2

\* C4: when an after hook raises, the other after hooks of the scope still
\* run in that call.
C4_AfterFailureDoesNotBlock ==
    (/\ run.called
     /\ \E ev \in run.raises : ev[1] = "after" /\ Count(run.trace, ev) > 0)
        => \A f \in Range(wrapper.after_hooks) :
               Count(run.trace, <<"after", f>>) > 0

\* C5: every registered after hook runs in every call of the wrapper, whatever
\* failed earlier in the chain: a before hook, the entry of an around hook or
\* the body.
C5_AfterHooksNeverSkipped ==
    (run.called /\ \A ev \in run.raises : ev[1] # "after")
        => \A f \in Range(wrapper.after_hooks) :
               Count(run.trace, <<"after", f>>) > 0

\* C12: when the body raises and then the exit of an around hook or an after
\* hook raises too, every around hook is still exited and every after hook
\* still called in that call of the wrapper, and the caller gets the failure
\* of the body, the first one.
C12_FirstFailureWins ==
    (/\ run.called
     /\ Body \in run.raises
     /\ Count(run.trace, Body) = 1
     /\ \E ev \in run.raises :
            ev[1] \in {"exit", "after"} /\ Count(run.trace, ev) > 0)
        => /\ \A f \in Range(wrapper.around_hooks) :
                  Count(run.trace, <<"exit", f>>) = 1
           /\ \A f \in Range(wrapper.after_hooks) :
                  Count(run.trace, <<"after", f>>) = 1
           /\ run.exc = Body

\* C13: when a before hook raises, the caller gets its failure at once: the
\* call of the wrapper runs the before hooks up to that one, in ascending
\* (priority, insertion) order, and then no other before hook, no entry of an
\* around hook and not the body.
C13_BeforeFailurePropagates ==
    (run.called /\ \E ev \in run.raises : ev[1] = "before")
        => LET B == Ordered(callbacks[wrapper.what]["before"])
               failing == {k \in 1..Len(B) : <<"before", B[k]>> \in run.raises}
               first == CHOOSE k \in failing : \A j \in failing : k <= j
           IN  /\ run.trace = Events("before", SubSeq(B, 1, first))
               /\ run.exc = <<"before", B[first]>>

\* the first of two before hooks raises, with around hooks registered
C13_Witness ==
    /\ run.called
    /\ run.raises = {<<"before", "f1">>}
    /\ wrapper.before_hooks = <<"f1", "f2">>
    /\ wrapper.around_hooks # <<>>
    /\ run.trace = <<<<"before", "f1">>>>
    /\ run.exc = <<"before", "f1">>

(***************************************************************************)
(* Claims about the hook registry, checked under RegistrySpec              *)
(***************************************************************************)
\* the kind of the event in which a hook of a timing is called first
KindOf(when) == IF when = "around" THEN "enter" ELSE when

\* the buckets of a when_dict that hold the name
Holding(when_dict, name) ==
    {i \in 1..Len(when_dict) : name \in Names(when_dict[i].funcs)}

AllNames(when_dict) ==
    UNION {Names(when_dict[i].funcs) : i \in 1..Len(when_dict)}

\* how many times the last call of the wrapper called a hook registered
\* under the name for the timing
Invocations(when, name) ==
    LET d == callbacks[wrapper.what][when]
        bound == {d[i].funcs[j].func : <<i, j>> \in
                     {e \in Entries(d) : d[e[1]].funcs[e[2]].name = name}}
    IN  Cardinality({k \in 1..Len(run.trace) :
                        /\ run.trace[k][1] = KindOf(when)
                        /\ run.trace[k][2] \in bound})

\* C6, as claimed: a hook identity registered more than once for one (scope,
\* timing), with whatever priorities, is called exactly once by a wrapper
\* composed afterwards.
C6_OncePerScopeAndTiming ==
    run.called
        => \A when \in Range(HOOK_WHEN) :
               \A name \in AllNames(callbacks[wrapper.what][when]) :
                   Invocations(when, name) = 1

\* C6, amended: a hook identity registered more than once for one (scope,
\* timing, priority) is held once in that bucket, last in it and bound to the
\* function of its most recent registration, and a wrapper composed
\* afterwards calls it once for every priority it is registered with.
C6_OncePerBucket ==
    /\ \A b \in Buckets(callbacks) :
           LET funcs == callbacks[HOOK_WHAT[b[1]]][HOOK_WHEN[b[2]]][b[3]].funcs
           IN  Cardinality(Names(funcs)) = Len(funcs)
    /\ reg.op = "append_to"
           => LET d == callbacks[reg.what][reg.when]
                  funcs == d[Bucket(d, reg.priority)].funcs
              IN  /\ reg.priority \in Priorities(d)
                  /\ funcs # <<>>
                  /\ funcs[Len(funcs)] =
                         [name |-> hook_name(reg.function, reg.name),
                          func |-> reg.function]
    /\ run.called
           => \A when \in Range(HOOK_WHEN) :
                  \A name \in AllNames(callbacks[wrapper.what][when]) :
                      Invocations(when, name) =
                          Cardinality(Holding(callbacks[wrapper.what][when],
                                              name))

\* a name registered again in a bucket that holds another hook too, and the
\* wrapper of that scope called
C6_Witness ==
    /\ run.called
    /\ reg.op = "append_to"
    /\ reg.replaced
    /\ reg.what = wrapper.what
    /\ LET d == callbacks[reg.what][reg.when]
       IN  Len(d[Bucket(d, reg.priority)].funcs) >= 2
    /\ Len(run.trace) >= 3

\* what clear is claimed to leave of a bucket: the hooks that do not have
\* both the name and the class asked for
Kept(bucket, name, priority_class) ==
    LET in_class == \/ priority_class = <<>>
                    \/ /\ is_tuple(bucket.priority)
                       /\ bucket.priority[1] = priority_class[1]
        RECURSIVE keep(_)
        keep(funcs) ==
            IF funcs = <<>> THEN <<>>
            ELSE IF in_class /\ (name = <<>> \/ Head(funcs).name = name)
                     THEN keep(Tail(funcs))
                     ELSE <<Head(funcs)>> \o keep(Tail(funcs))
    IN  keep(bucket.funcs)

\* C10: clear(name, priority_class) removes exactly the hooks that have the
\* name (if one is given) and the class (if one is given), in all scopes and
\* timings, and leaves the others in their order, in every registry that
\* append_to can build, its default priority included.
C10_ClearRemovesExactly ==
    [][(reg'.op = "clear" /\ (reg' # reg \/ callbacks' # callbacks))
          => /\ ~reg'.raised
             /\ \A what \in Range(HOOK_WHAT), when \in Range(HOOK_WHEN) :
                    /\ Len(callbacks'[what][when]) = Len(callbacks[what][when])
                    /\ \A i \in 1..Len(callbacks[what][when]) :
                           callbacks'[what][when][i].funcs =
                               Kept(callbacks[what][when][i], reg'.name,
                                    reg'.priority)]_vars

(***************************************************************************)
(* Claims about the priority classes, checked under PrioritySpec           *)
(***************************************************************************)
\* the place of a priority class in DISPLAY < SYSTEM_OUTER < USER <
\* SYSTEM_INNER
ClassRank(priority_class) ==
    CASE priority_class = DISPLAY -> 1
      [] priority_class = SYSTEM_OUTER -> 2
      [] priority_class = USER -> 3
      [] priority_class = SYSTEM_INNER -> 4

\* hook p comes before hook q: by the class, then by the sub-priority, then
\* by the insertion in the bucket
ClassPrecedes(when_dict, p, q) ==
    LET a == when_dict[p[1]].priority
        b == when_dict[q[1]].priority
    IN  \/ ClassRank(a[1]) < ClassRank(b[1])
        \/ a[1] = b[1] /\ a[2] < b[2]
        \/ p[1] = q[1] /\ p[2] < q[2]

ClassOrdered(when_dict) ==
    [k \in 1..Cardinality(Entries(when_dict)) |->
        LET p == CHOOSE e \in Entries(when_dict) :
                     Cardinality({q \in Entries(when_dict) :
                                     ClassPrecedes(when_dict, q, e)}) = k - 1
        IN  when_dict[p[1]].funcs[p[2]].func]

\* C14: hook_list gives the hooks in lexicographic order of (priority class,
\* sub-priority) with DISPLAY < SYSTEM_OUTER < USER < SYSTEM_INNER: a hook of
\* a lower class precedes a hook of a higher class whatever the
\* sub-priorities, the sub-priority orders the hooks of one class and the
\* insertion those of one bucket; the wrapper calls the before hooks and
\* enters the around hooks in that order.
C14_ClassThenSubPriority ==
    /\ \A when \in Range(HOOK_WHEN) :
           /\ ~hook_list(callbacks, "step", when).raised
           /\ hook_list(callbacks, "step", when).hooks =
                  ClassOrdered(callbacks["step"][when])
    /\ run.called
           => LET B == ClassOrdered(callbacks["step"]["before"])
                  R == ClassOrdered(callbacks["step"]["around"])
              IN  SubSeq(run.trace, 1, Len(B) + Len(R)) =
                      Events("before", B) \o Events("enter", R)

\* a before hook of class DISPLAY with sub-priority 5, registered after one of
\* class USER with sub-priority 0, is called before it
C14_Witness ==
    /\ run.called
    /\ Len(callbacks["step"]["before"]) = 2
    /\ callbacks["step"]["before"][1] =
           [priority |-> <<USER, 0>>,
            funcs |-> <<[name |-> function_id("f2"), func |-> "f2"]>>]
    /\ callbacks["step"]["before"][2] =
           [priority |-> <<DISPLAY, 5>>,
            funcs |-> <<[name |-> function_id("f1"), func |-> "f1"]>>]
    /\ run.trace = <<<<"before", "f1">>, <<"before", "f2">>, Body>>

(***************************************************************************)
(* Claims about before_after, checked under PairSpec                       *)
(***************************************************************************)
RECURSIVE HookEvents(_)
HookEvents(trace) ==
    IF trace = <<>> THEN <<>>
    ELSE (IF Head(trace) = Body THEN <<>> ELSE <<Head(trace)>>)
             \o HookEvents(Tail(trace))

\* C18: before_func and then after_func of before_after(what) call the hooks
\* in the order in which the wrapper of wrap(what, body) calls them around a
\* body that succeeds: the before hooks ascending, the around entries
\* ascending, the around exits reversed and the after hooks reversed.
C18_PairRunsAsWrapper ==
    (run.called /\ run.exc = NoExc)
        => run.trace = HookEvents(wrapped_result(wrapper, {}).trace)

(***************************************************************************)
(* Claims about the hooks a wrapper holds, checked under SnapshotSpec      *)
(***************************************************************************)
\* C19: wrap(what) gives a wrapper with the hooks registered for that scope,
\* and for no other, at that moment; a call of append_to or clear made later
\* leaves the wrapper as it is; and every call of the wrapper, whatever the
\* registry has become, runs the hooks the wrapper was built with, in their
\* order.
C19_WrapperKeepsItsHooks ==
    [][/\ (run' = NoRun /\ callbacks' = callbacks /\ reg' = reg
               /\ wrapper'.what # None)
           => /\ wrapper'.before_hooks =
                     Ordered(callbacks[wrapper'.what]["before"])
              /\ wrapper'.around_hooks =
                     Ordered(callbacks[wrapper'.what]["around"])
              /\ wrapper'.after_hooks =
                     Ordered(callbacks[wrapper'.what]["after"])
       /\ (reg' # reg \/ callbacks' # callbacks)
           => wrapper' = wrapper /\ run' = run
       /\ (run'.called /\ run' # run)
           => /\ wrapper' = wrapper
              /\ run'.trace =
                     Events("before", wrapper.before_hooks)
                         \o Events("enter", wrapper.around_hooks)
                         \o <<Body>>
                         \o Events("exit", Reverse(wrapper.around_hooks))
                         \o Events("after", Reverse(wrapper.after_hooks))
      ]_vars

\* the wrapper has run the two before hooks of the steps that it was built
\* with, after clear has emptied the registry
C19_Witness ==
    /\ run.called
    /\ reg.op = "clear"
    /\ wrapper.before_hooks = <<"f2", "f1">>
    /\ hook_list(callbacks, "step", "before").hooks = <<>>
    /\ run.trace = <<<<"before", "f2">>, <<"before", "f1">>, Body>>

====
